---------------------------- MODULE Spec2Model ----------------------------
(***************************************************************************)
(* Role-based access control of music_assistant_models/auth.py:            *)
(* the PermissionScope enumeration, Role.has_permission and the            *)
(* DEFAULT_ROLES table.                                                    *)
(*                                                                         *)
(* Python values are records [type, v]: a str carries its text, a          *)
(* PermissionScope member carries its member name, None carries "None".    *)
(* A Role object is a record of its dataclass fields.                      *)
(***************************************************************************)
EXTENDS Naturals, Sequences, FiniteSets, TLC

VARIABLES default_roles,  \* the module-level dict DEFAULT_ROLES
          custom_roles,   \* Role objects constructed by callers (role_id -> Role)
          callers         \* per caller: position in has_permission and its locals

vars == <<default_roles, custom_roles, callers>>

(***************************************************************************)
(* Bounds of the model.                                                    *)
(***************************************************************************)
\* longest permissions list given to a custom role
MaxLen == 2

(***************************************************************************)
(* Python values.                                                          *)
(***************************************************************************)
PyStr(s) == [type |-> "str", v |-> s]

None == [type |-> "NoneType", v |-> "None"]

\* class PermissionScope(Enum): member name -> value
PermissionScope ==
    [ PLAYER_CONTROL   |-> "player.control",
      PLAYER_VOLUME    |-> "player.volume",
      PLAYER_QUEUE     |-> "player.queue",
      PLAYER_POWER     |-> "player.power",
      PLAYER_VIEW      |-> "player.view",
      LIBRARY_READ     |-> "library.read",
      LIBRARY_WRITE    |-> "library.write",
      LIBRARY_DELETE   |-> "library.delete",
      PLAYLIST_READ    |-> "playlist.read",
      PLAYLIST_WRITE   |-> "playlist.write",
      PLAYLIST_DELETE  |-> "playlist.delete",
      PROVIDER_VIEW    |-> "provider.view",
      PROVIDER_MANAGE  |-> "provider.manage",
      SYSTEM_SETTINGS  |-> "system.settings",
      SYSTEM_ADMIN     |-> "system.admin",
      USER_READ        |-> "user.read",
      USER_WRITE       |-> "user.write",
      USER_DELETE      |-> "user.delete" ]

\* the member PermissionScope.<name>
Member(name) == [type |-> "PermissionScope", v |-> name]

Members == {Member(n) : n \in DOMAIN PermissionScope}

\* member.value
ValueOf(m) == PermissionScope[m.v]

\* PermissionScope(value): the member with that value, or ValueError
PermissionScopeCall(s) ==
    IF \E n \in DOMAIN PermissionScope : PermissionScope[n] = s.v
    THEN [raised |-> "none",
          member |-> Member(CHOOSE n \in DOMAIN PermissionScope : PermissionScope[n] = s.v)]
    ELSE [raised |-> "ValueError", member |-> None]

\* isinstance(x, str); PermissionScope derives from Enum, not from str
IsInstanceStr(x) == x.type = "str"

\* mutant of ListContains: lst.count(x) == 1 instead of x in lst
ListContains_CountIsOne(lst, x) == Cardinality({i \in 1..Len(lst) : lst[i] = x}) = 1

\* x in lst  (list membership by ==)
ListContains(lst, x) == \E i \in 1..Len(lst) : lst[i] = x

\* obj.permissions exists
HasPermissionsAttr(obj) == "permissions" \in DOMAIN obj

(***************************************************************************)
(* Role and DEFAULT_ROLES.                                                 *)
(***************************************************************************)
Role(role_id, name, description, is_system, permissions) ==
    [ role_id     |-> role_id,
      name        |-> name,
      description |-> description,
      is_system   |-> is_system,
      permissions |-> permissions,
      created_at  |-> "None" ]

\* mutant of DefaultAdmin: the admin role spells out further scopes
DefaultAdmin_ExplicitList ==
    Role("admin", "Administrator", "Full system access with all permissions", TRUE,
         << Member("SYSTEM_ADMIN"), Member("SYSTEM_SETTINGS") >>)

\* DEFAULT_ROLES["admin"]
DefaultAdmin ==
    Role("admin", "Administrator", "Full system access with all permissions", TRUE,
         << Member("SYSTEM_ADMIN") >>)

\* DEFAULT_ROLES["user"]
DefaultUser ==
    Role("user", "Standard User",
         "Standard user with basic playback and library access", TRUE,
         << Member("PLAYER_CONTROL"), Member("PLAYER_VOLUME"),
            Member("PLAYER_QUEUE"), Member("PLAYER_VIEW"),
            Member("LIBRARY_READ"), Member("PLAYLIST_READ"),
            Member("PLAYLIST_WRITE"), Member("PROVIDER_VIEW") >>)

\* mutant of DefaultGuest: the guest may also control players
DefaultGuest_WithControl ==
    Role("guest", "Guest", "Limited read-only access", TRUE,
         << Member("PLAYER_VIEW"), Member("LIBRARY_READ"), Member("PLAYLIST_READ"),
            Member("PLAYER_CONTROL") >>)

\* DEFAULT_ROLES["guest"]
DefaultGuest ==
    Role("guest", "Guest", "Limited read-only access", TRUE,
         << Member("PLAYER_VIEW"), Member("LIBRARY_READ"), Member("PLAYLIST_READ") >>)

\* mutant of DefaultDj: the dj's list is copied from the user's and keeps
\* playlist.write
DefaultDj_WithPlaylistWrite ==
    Role("dj", "DJ",
         "Playback control and queue management without library modifications", TRUE,
         << Member("PLAYER_CONTROL"), Member("PLAYER_VOLUME"),
            Member("PLAYER_QUEUE"), Member("PLAYER_VIEW"),
            Member("LIBRARY_READ"), Member("PLAYLIST_READ"),
            Member("PLAYLIST_WRITE") >>)

\* DEFAULT_ROLES["dj"]
DefaultDj ==
    Role("dj", "DJ",
         "Playback control and queue management without library modifications", TRUE,
         << Member("PLAYER_CONTROL"), Member("PLAYER_VOLUME"),
            Member("PLAYER_QUEUE"), Member("PLAYER_VIEW"),
            Member("LIBRARY_READ"), Member("PLAYLIST_READ") >>)

DEFAULT_ROLES ==
    [ admin |-> DefaultAdmin, user |-> DefaultUser,
      guest |-> DefaultGuest, dj |-> DefaultDj ]

(***************************************************************************)
(* Role.has_permission(self, permission), as one call.                     *)
(* The outcome is [status, value, exc]: status "returned" with the         *)
(* boolean value, or status "raised" with the exception's name.            *)
(***************************************************************************)
Returned(b) == [status |-> "returned", value |-> b, exc |-> "none"]

Raised(e) == [status |-> "raised", value |-> FALSE, exc |-> e]

NoOutcome == [status |-> "idle", value |-> FALSE, exc |-> "none"]

\* mutant of CheckMembership: the SYSTEM_ADMIN short-circuit is missing
CheckMembership_NoWildcard(self, permission) ==
    IF ~HasPermissionsAttr(self) THEN Raised("AttributeError")
    ELSE Returned(ListContains(self.permissions, permission))

\* mutant of CheckMembership: the last element of the list is not looked at
CheckMembership_DropLast(self, permission) ==
    IF ~HasPermissionsAttr(self) THEN Raised("AttributeError")
    ELSE IF ListContains(self.permissions, Member("SYSTEM_ADMIN")) THEN Returned(TRUE)
    ELSE Returned(ListContains(SubSeq(self.permissions, 1, Len(self.permissions) - 1),
                               permission))

\* lines 137-141, with the local permission already resolved
CheckMembership(self, permission) ==
    IF ~HasPermissionsAttr(self) THEN Raised("AttributeError")
    ELSE IF ListContains(self.permissions, Member("SYSTEM_ADMIN")) THEN Returned(TRUE)
    ELSE Returned(ListContains(self.permissions, permission))

\* mutant of has_permission: the wildcard is tested before the string is resolved
has_permission_WildcardFirst(self, permission) ==
    IF ~HasPermissionsAttr(self) THEN Raised("AttributeError")
    ELSE IF ListContains(self.permissions, Member("SYSTEM_ADMIN")) THEN Returned(TRUE)
    ELSE IF IsInstanceStr(permission)
    THEN LET r == PermissionScopeCall(permission)
         IN  IF r.raised = "ValueError" THEN Returned(FALSE)
             ELSE Returned(ListContains(self.permissions, r.member))
    ELSE Returned(ListContains(self.permissions, permission))

\* lines 124-141
has_permission(self, permission) ==
    IF IsInstanceStr(permission)
    THEN LET r == PermissionScopeCall(permission)
         IN  IF r.raised = "ValueError" THEN Returned(FALSE)
             ELSE CheckMembership(self, r.member)
    ELSE CheckMembership(self, permission)

(***************************************************************************)
(* Inputs.                                                                 *)
(***************************************************************************)
\* strings that are the value of no member
UnknownStrings ==
    { PyStr("not.a.real.scope"), PyStr("SYSTEM_ADMIN"), PyStr("System.Admin"),
      PyStr(""), PyStr("player") }

ScopeStrings == {PyStr(PermissionScope[n]) : n \in DOMAIN PermissionScope}

\* what a caller may pass as permission
Requests == Members \cup ScopeStrings \cup UnknownStrings \cup {None}

\* permissions lists of custom roles
PermLists == UNION {[1..n -> Members] : n \in 0..MaxLen}

Range(s) == {s[i] : i \in 1..Len(s)}

\* lists over the members of S, of length at most MaxLen
ListsOver(S) == UNION {[1..n -> S] : n \in 0..MaxLen}

CustomRole(id, perms) == Role(id, "Custom", "A custom role", FALSE, perms)

Callers == {"c1", "c2"}

\* a caller's reference to the object it passes as self: a key of one of the
\* two tables, or "None"
RoleRefs == DOMAIN default_roles \cup DOMAIN custom_roles \cup {"None"}

Deref(ref) ==
    IF ref \in DOMAIN default_roles THEN default_roles[ref]
    ELSE IF ref \in DOMAIN custom_roles THEN custom_roles[ref]
    ELSE None

Idle == [pc |-> "idle", self |-> "None", arg |-> None, permission |-> None,
         outcome |-> NoOutcome]

(***************************************************************************)
(* Spec: one caller; has_permission runs as one step on a custom role      *)
(* with any permissions list (or on None) with any request.                *)
(***************************************************************************)
Init ==
    /\ default_roles = DEFAULT_ROLES
    /\ \E p \in PermLists : custom_roles = [custom |-> CustomRole("custom", p)]
    /\ callers = [c \in Callers |-> Idle]

\* caller c evaluates Deref(ref).has_permission(req)
HasPermission(c, ref, req) ==
    /\ callers[c].pc = "idle"
    /\ callers' = [callers EXCEPT ![c] =
                      [pc |-> "done", self |-> ref, arg |-> req, permission |-> req,
                       outcome |-> has_permission(Deref(ref), req)]]
    /\ UNCHANGED <<default_roles, custom_roles>>

\* caller c has used the outcome and is ready for its next call
Return(c) ==
    /\ callers[c].pc = "done"
    /\ callers' = [callers EXCEPT ![c] = Idle]
    /\ UNCHANGED <<default_roles, custom_roles>>

Next ==
    \/ \E ref \in DOMAIN custom_roles \cup {"None"}, req \in Requests :
          HasPermission("c1", ref, req)
    \/ Return("c1")

Spec == Init /\ [][Next]_vars

(***************************************************************************)
(* SpecDefaults: one caller; has_permission runs as one step on a role of  *)
(* DEFAULT_ROLES with any request.                                         *)
(***************************************************************************)
\* the permissions lists of the custom role that stands beside DEFAULT_ROLES
ScenarioLists == { << Member("PLAYER_CONTROL") >> }

InitDefaults ==
    /\ default_roles = DEFAULT_ROLES
    /\ \E p \in ScenarioLists : custom_roles = [custom |-> CustomRole("custom", p)]
    /\ callers = [c \in Callers |-> Idle]

NextDefaults ==
    \/ \E ref \in DOMAIN default_roles, req \in Requests :
          HasPermission("c1", ref, req)
    \/ Return("c1")

SpecDefaults == InitDefaults /\ [][NextDefaults]_vars

(***************************************************************************)
(* SpecPair: two custom roles whose permissions lists hold the same set    *)
(* of scopes, in any order and with any repetition; the same request is    *)
(* put to both.                                                            *)
(***************************************************************************)
InitPair ==
    /\ default_roles = DEFAULT_ROLES
    /\ \E p \in PermLists :
          \E q \in {l \in ListsOver(Range(p)) : Range(l) = Range(p)} :
             custom_roles = [custom  |-> CustomRole("custom", p),
                             custom2 |-> CustomRole("custom2", q)]
    /\ callers = [c \in Callers |-> Idle]

\* c1 evaluates custom.has_permission(req), then c2 custom2.has_permission(req)
HasPermissionPair(req) ==
    /\ \A c \in Callers : callers[c].pc = "idle"
    /\ callers' =
          [c \in Callers |->
              LET ref == IF c = "c1" THEN "custom" ELSE "custom2"
              IN  [pc |-> "done", self |-> ref, arg |-> req, permission |-> req,
                   outcome |-> has_permission(Deref(ref), req)]]
    /\ UNCHANGED <<default_roles, custom_roles>>

ReturnPair ==
    /\ \A c \in Callers : callers[c].pc = "done"
    /\ callers' = [c \in Callers |-> Idle]
    /\ UNCHANGED <<default_roles, custom_roles>>

NextPair ==
    \/ \E req \in Requests : HasPermissionPair(req)
    \/ ReturnPair

SpecPair == InitPair /\ [][NextPair]_vars

(***************************************************************************)
(* SpecConc: two concurrent callers on the roles of both tables (or on     *)
(* None); has_permission runs statement by statement from its first read   *)
(* of the role on, so the calls interleave.                                *)
(* pc names the line about to run.                                         *)
(***************************************************************************)
\* lines 124-135: caller c enters Deref(ref).has_permission(req); a string is
\* resolved to its member, or the call returns False.  Only locals are touched.
Call(c, ref, req) ==
    /\ callers[c].pc = "idle"
    /\ LET r == PermissionScopeCall(req)
           entered == [pc |-> "l138", self |-> ref, arg |-> req, permission |-> req,
                       outcome |-> NoOutcome]
       IN  callers' =
              [callers EXCEPT ![c] =
                  IF ~IsInstanceStr(req) THEN entered
                  ELSE IF r.raised = "ValueError"
                       THEN [entered EXCEPT !.pc = "done", !.outcome = Returned(FALSE)]
                       ELSE [entered EXCEPT !.permission = r.member]]
    /\ UNCHANGED <<default_roles, custom_roles>>

\* lines 138-139: the SYSTEM_ADMIN short-circuit
Line138(c) ==
    /\ callers[c].pc = "l138"
    /\ LET self == Deref(callers[c].self)
       IN  callers' =
              [callers EXCEPT ![c] =
                  IF ~HasPermissionsAttr(self)
                  THEN [@ EXCEPT !.pc = "done", !.outcome = Raised("AttributeError")]
                  ELSE IF ListContains(self.permissions, Member("SYSTEM_ADMIN"))
                       THEN [@ EXCEPT !.pc = "done", !.outcome = Returned(TRUE)]
                       ELSE [@ EXCEPT !.pc = "l141"]]
    /\ UNCHANGED <<default_roles, custom_roles>>

\* mutant of Line141: the scope asked for is remembered in the role's list
Line141_Remember(c) ==
    /\ callers[c].pc = "l141"
    /\ LET ref == callers[c].self
           self == Deref(ref)
           permission == callers[c].permission
       IN  /\ callers' =
                 [callers EXCEPT ![c] =
                     [@ EXCEPT !.pc = "done",
                               !.outcome = Returned(ListContains(self.permissions,
                                                                 permission))]]
           /\ IF ref \in DOMAIN default_roles
              THEN /\ default_roles' =
                         [default_roles EXCEPT ![ref].permissions =
                                                   Append(@, permission)]
                   /\ UNCHANGED custom_roles
              ELSE /\ custom_roles' =
                         [custom_roles EXCEPT ![ref].permissions =
                                                  Append(@, permission)]
                   /\ UNCHANGED default_roles

\* line 141: membership in the list
Line141(c) ==
    /\ callers[c].pc = "l141"
    /\ LET self == Deref(callers[c].self)
       IN  callers' =
              [callers EXCEPT ![c] =
                  [@ EXCEPT !.pc = "done",
                            !.outcome = Returned(ListContains(self.permissions,
                                                              callers[c].permission))]]
    /\ UNCHANGED <<default_roles, custom_roles>>

NextConc ==
    \E c \in Callers :
        \/ \E ref \in RoleRefs, req \in Requests : Call(c, ref, req)
        \/ Line138(c)
        \/ Line141(c)
        \/ Return(c)

SpecConc == InitDefaults /\ [][NextConc]_vars

(***************************************************************************)
(* Vocabulary of the properties.                                           *)
(***************************************************************************)
Done(c) == callers[c].pc = "done"

\* the object caller c passed as self
SelfOf(c) == Deref(callers[c].self)

IsRole(obj) == "role_id" \in DOMAIN obj

\* the request is a registry scope: a member, or the string value of one
RegistryRequest(a) ==
    \/ a.type = "PermissionScope" /\ a.v \in DOMAIN PermissionScope
    \/ a.type = "str" /\ \E n \in DOMAIN PermissionScope : PermissionScope[n] = a.v

\* the dotted value a registry request stands for
RequestedValue(a) == IF a.type = "str" THEN a.v ELSE PermissionScope[a.v]

\* the dotted values listed in a role's permissions
ListedValues(role) ==
    {PermissionScope[role.permissions[i].v] : i \in 1..Len(role.permissions)}

HoldsAdmin(role) == "system.admin" \in ListedValues(role)

Granted(c) == callers[c].outcome = Returned(TRUE)

Denied(c) == callers[c].outcome = Returned(FALSE)

(***************************************************************************)
(* C1. Wildcard rule: a call on a role whose permissions contain           *)
(* SYSTEM_ADMIN, with any registry scope (member or string value),         *)
(* returns True, also when the scope is not listed in the role.            *)
(***************************************************************************)
C1_Wildcard ==
    \A c \in Callers :
        (Done(c) /\ IsRole(SelfOf(c)) /\ HoldsAdmin(SelfOf(c))
                 /\ RegistryRequest(callers[c].arg))
        => Granted(c)

C1_Witness ==
    /\ Done("c1")
    /\ callers["c1"].self = "custom"
    /\ ListedValues(custom_roles["custom"]) = {"system.admin", "player.view"}
    /\ callers["c1"].arg = PyStr("library.delete")
    /\ Granted("c1")

(***************************************************************************)
(* C2. Exact membership: a call on a role without SYSTEM_ADMIN, with a     *)
(* registry scope, returns True iff that scope is an element of the        *)
(* role's permissions; holding only player.control denies player.volume,   *)
(* and an empty permissions list denies every scope.                       *)
(***************************************************************************)
C2_ExactMembership ==
    \A c \in Callers :
        (Done(c) /\ IsRole(SelfOf(c)) /\ ~HoldsAdmin(SelfOf(c))
                 /\ RegistryRequest(callers[c].arg))
        => /\ callers[c].outcome.status = "returned"
           /\ callers[c].outcome.value
                 = (RequestedValue(callers[c].arg) \in ListedValues(SelfOf(c)))
           /\ (ListedValues(SelfOf(c)) = {"player.control"}
                 /\ RequestedValue(callers[c].arg) = "player.volume") => Denied(c)
           /\ SelfOf(c).permissions = << >> => Denied(c)

C2_Witness ==
    /\ Done("c1")
    /\ callers["c1"].self = "custom"
    /\ custom_roles["custom"].permissions = << Member("PLAYER_CONTROL") >>
    /\ callers["c1"].arg = Member("PLAYER_VOLUME")
    /\ Denied("c1")

(***************************************************************************)
(* C3. Fail closed on unknown strings: a call with a string that is the    *)
(* value of no member returns False on every role, the admin role and      *)
(* every holder of SYSTEM_ADMIN included.                                   *)
(***************************************************************************)
C3_UnknownStringDenied ==
    \A c \in Callers :
        (Done(c) /\ IsRole(SelfOf(c)) /\ callers[c].arg.type = "str"
                 /\ ~RegistryRequest(callers[c].arg))
        => Denied(c)

C3_Witness ==
    /\ Done("c1")
    /\ callers["c1"].self = "custom"
    /\ custom_roles["custom"].permissions = << Member("SYSTEM_ADMIN") >>
    /\ callers["c1"].arg = PyStr("not.a.real.scope")
    /\ Denied("c1")

(***************************************************************************)
(* C4. Never raises and never fails open: every call, whatever the role    *)
(* (None included) and the request, ends by returning a boolean, and       *)
(* returns False when the request is no registry scope or the role is      *)
(* None.                                                                   *)
(***************************************************************************)
C4_NeverRaisesNeverFailsOpen ==
    \A c \in Callers :
        Done(c)
        => /\ callers[c].outcome.status = "returned"
           /\ (~RegistryRequest(callers[c].arg) \/ ~IsRole(SelfOf(c))) => Denied(c)

(***************************************************************************)
(* C5. DEFAULT_ROLES has exactly the keys admin, user, guest and dj, each  *)
(* role has is_system true, and admin's permissions are SYSTEM_ADMIN and   *)
(* nothing else.                                                           *)
(***************************************************************************)
C5_DefaultRolesSystem ==
    /\ DOMAIN default_roles = {"admin", "user", "guest", "dj"}
    /\ \A id \in DOMAIN default_roles :
          /\ default_roles[id].is_system = TRUE
          /\ default_roles[id].role_id = id
    /\ ListedValues(default_roles["admin"]) = {"system.admin"}

C5_Witness ==
    /\ Done("c1")
    /\ callers["c1"].self = "admin"
    /\ SelfOf("c1").is_system
    /\ callers["c1"].arg = Member("USER_DELETE")
    /\ Granted("c1")

(***************************************************************************)
(* C6. Guest is strictly weaker than user: the scopes listed for guest     *)
(* are a proper subset of those listed for user, and a call on guest       *)
(* returns True only for player.view, library.read and playlist.read.      *)
(***************************************************************************)
C6_GuestWeakerThanUser ==
    /\ ListedValues(default_roles["guest"]) \subseteq ListedValues(default_roles["user"])
    /\ ListedValues(default_roles["guest"]) # ListedValues(default_roles["user"])
    /\ ~HoldsAdmin(default_roles["guest"])
    /\ \A c \in Callers :
          (Done(c) /\ callers[c].self = "guest" /\ RegistryRequest(callers[c].arg))
          => IF RequestedValue(callers[c].arg)
                  \in {"player.view", "library.read", "playlist.read"}
             THEN Granted(c) ELSE Denied(c)
    /\ \A c \in Callers :
          (Done(c) /\ callers[c].self = "user" /\ RegistryRequest(callers[c].arg)
                   /\ RequestedValue(callers[c].arg)
                         \in {"player.view", "library.read", "playlist.read"})
          => Granted(c)

C6_Witness ==
    /\ Done("c1")
    /\ callers["c1"].self = "guest"
    /\ callers["c1"].arg = PyStr("player.control")
    /\ Denied("c1")

(***************************************************************************)
(* C7. A call on the default dj role returns True exactly for              *)
(* player.control, player.volume, player.queue, player.view, library.read  *)
(* and playlist.read: playlist.write is denied, player.queue is granted.   *)
(***************************************************************************)
C7_DjDecisions ==
    \A c \in Callers :
        (Done(c) /\ callers[c].self = "dj" /\ RegistryRequest(callers[c].arg))
        => IF RequestedValue(callers[c].arg)
                \in {"player.control", "player.volume", "player.queue",
                     "player.view", "library.read", "playlist.read"}
           THEN Granted(c) ELSE Denied(c)

C7_Witness ==
    /\ Done("c1")
    /\ callers["c1"].self = "dj"
    /\ callers["c1"].arg = PyStr("playlist.write")
    /\ Denied("c1")

(***************************************************************************)
(* C8. No side effects: whatever calls run and however they interleave,    *)
(* DEFAULT_ROLES keeps its initial contents, no step changes a field of    *)
(* any role, and two finished calls with the same role and the same        *)
(* request have the same outcome.                                          *)
(***************************************************************************)
C8_NoSideEffects ==
    /\ [](default_roles = DEFAULT_ROLES)
    /\ [][default_roles' = default_roles /\ custom_roles' = custom_roles]_vars
    /\ [](\A c, d \in Callers :
             (Done(c) /\ Done(d) /\ callers[c].self = callers[d].self
                      /\ callers[c].arg = callers[d].arg)
             => callers[c].outcome = callers[d].outcome)

C8_Witness ==
    /\ Done("c1")
    /\ callers["c2"].pc = "l141"
    /\ callers["c1"].self = "guest" /\ callers["c2"].self = "guest"
    /\ callers["c1"].arg = PyStr("player.power")
    /\ callers["c2"].arg = PyStr("player.power")
    /\ Denied("c1")
    /\ default_roles = DEFAULT_ROLES

(***************************************************************************)
(* C10. The permissions list is evaluated as a set: two roles whose lists  *)
(* hold the same set of scopes, in whatever order and with whatever        *)
(* repetition, give the same outcome for the same request.                 *)
(***************************************************************************)
C10_ListAsSet ==
    (/\ Done("c1") /\ Done("c2")
     /\ IsRole(SelfOf("c1")) /\ IsRole(SelfOf("c2"))
     /\ ListedValues(SelfOf("c1")) = ListedValues(SelfOf("c2"))
     /\ callers["c1"].arg = callers["c2"].arg)
    => callers["c1"].outcome = callers["c2"].outcome

C10_Witness ==
    /\ Done("c1") /\ Done("c2")
    /\ custom_roles["custom"].permissions
          = << Member("PLAYER_VIEW"), Member("PLAYER_QUEUE") >>
    /\ custom_roles["custom2"].permissions
          = << Member("PLAYER_QUEUE"), Member("PLAYER_VIEW") >>
    /\ callers["c1"].arg = PyStr("player.queue")
    /\ callers["c2"].arg = PyStr("player.queue")
    /\ Granted("c1") /\ Granted("c2")

=============================================================================
